---------------------------- MODULE Spec2Model ----------------------------
(***************************************************************************)
(* Model of src/filter/time.rs: the TimeFilter of a file-search tool.     *)
(*                                                                         *)
(* A TimeFilter is built by before(ref_time, s) / after(ref_time, s) from  *)
(* a reference instant and a user string, and then asked applies_to(t)    *)
(* for candidate instants.  The string is tried as a humantime duration,  *)
(* then as a weak RFC 3339 date, then as such a date with " 00:00:00"     *)
(* appended; a date is re-read as local wall-clock time.                  *)
(*                                                                         *)
(* Strings are TLA+ strings and are parsed character by character.        *)
(* Instants and durations are records [secs, nanos], as std::time keeps   *)
(* them.  TLC's integers are 32 bits wide, so the 64-bit second counters  *)
(* of the program are modelled narrower: u64 as 0..2^31-1 and i64 as      *)
(* -2^30..2^30-1.  As in the program, u64 has one bit more than i64's     *)
(* magnitude, so a duration the grammar accepts can exceed the distance   *)
(* from an instant to the earliest representable one.  The latest date    *)
(* the weak grammar accepts is scaled with the counters (the end of 2003  *)
(* instead of the end of 9999) so that, as in the program, every accepted *)
(* date is a representable instant.  Dates are therefore taken from the   *)
(* year 2000 where the program's tests use 2010.                          *)
(***************************************************************************)
EXTENDS Integers, Sequences, FiniteSets, TLC

\* ------------------------------------------------------------ widths

\* u64::MAX, the largest Duration second count (scaled, see above).
U64_MAX == 2147483647
\* i64::MIN, the earliest second a SystemTime can hold (scaled).
I64_MIN == -1073741824
NANOS_PER_SEC == 1000000000

\* ------------------------------------------------------------ values

Ok(v) == [tag |-> "Ok", val |-> v]
Err == [tag |-> "Err"]
Some(v) == [tag |-> "Some", val |-> v]
None == [tag |-> "None"]
\* The call did not return: the thread panicked.
Panic == [tag |-> "Panic"]

Duration(s, n) == [secs |-> s, nanos |-> n]
SystemTime(s, n) == [secs |-> s, nanos |-> n]
UNIX_EPOCH == SystemTime(0, 0)

\* The derived total order of SystemTime (Timespec: tv_sec, then tv_nsec).
Le(a, b) == a.secs < b.secs \/ (a.secs = b.secs /\ a.nanos <= b.nanos)
Ge(a, b) == Le(b, a)

\* ------------------------------------------------------------ characters

Char(s, i) == SubSeq(s, i, i)
DigitChars == <<"0", "1", "2", "3", "4", "5", "6", "7", "8", "9">>
IsDigit(c) == \E k \in 1..10 : DigitChars[k] = c
DigitVal(c) == (CHOOSE k \in 1..10 : DigitChars[k] = c) - 1
IsWhitespace(c) == c = " "
IsAlpha(c) ==
    c \in {"a", "b", "c", "d", "e", "f", "g", "h", "i", "j", "k", "l", "m",
           "n", "o", "p", "q", "r", "s", "t", "u", "v", "w", "x", "y", "z",
           "A", "B", "C", "D", "E", "F", "G", "H", "I", "J", "K", "L", "M",
           "N", "O", "P", "Q", "R", "S", "T", "U", "V", "W", "X", "Y", "Z"}

\* ------------------------------------------------------------ humantime::parse_duration

\* u64 checked_add / checked_mul: Err on overflow.
checked_add(a, b) == IF a > U64_MAX - b THEN Err ELSE Ok(a + b)
checked_mul(a, b) == IF b # 0 /\ a > U64_MAX \div b THEN Err ELSE Ok(a * b)

\* The (seconds, nanoseconds) a number n of the unit stands for.
unit_value(n, unit) ==
    IF unit \in {"nanos", "nsec", "ns"} THEN Ok(<<0, n>>)
    ELSE IF unit \in {"usec", "us"} THEN
        LET m == checked_mul(n, 1000) IN
        IF m.tag = "Err" THEN Err ELSE Ok(<<0, m.val>>)
    ELSE IF unit \in {"millis", "msec", "ms"} THEN
        LET m == checked_mul(n, 1000000) IN
        IF m.tag = "Err" THEN Err ELSE Ok(<<0, m.val>>)
    ELSE LET k == IF unit \in {"seconds", "second", "secs", "sec", "s"} THEN 1
                  ELSE IF unit \in {"minutes", "minute", "min", "mins", "m"} THEN 60
                  ELSE IF unit \in {"hours", "hour", "hr", "hrs", "h"} THEN 3600
                  ELSE IF unit \in {"days", "day", "d"} THEN 86400
                  ELSE IF unit \in {"weeks", "week", "w"} THEN 604800
                  ELSE IF unit \in {"months", "month", "M"} THEN 2630016
                  ELSE IF unit \in {"years", "year", "y"} THEN 31557600
                  ELSE 0
         IN IF k = 0 THEN Err  \* UnknownUnit
            ELSE LET m == checked_mul(n, k) IN
                 IF m.tag = "Err" THEN Err ELSE Ok(<<m.val, 0>>)

\* Parser::parse_unit: add n units to the running total cur.
parse_unit(n, unit, cur) ==
    LET v == unit_value(n, unit) IN
    IF v.tag = "Err" THEN Err
    ELSE LET nsum == checked_add(cur.nanos, v.val[2]) IN
         IF nsum.tag = "Err" THEN Err
         ELSE LET carry == IF nsum.val > NANOS_PER_SEC
                           THEN nsum.val \div NANOS_PER_SEC ELSE 0
                  nsec == IF nsum.val > NANOS_PER_SEC
                          THEN nsum.val % NANOS_PER_SEC ELSE nsum.val
                  sec1 == checked_add(v.val[1], carry)
              IN IF sec1.tag = "Err" THEN Err
                 ELSE LET sec2 == checked_add(cur.secs, sec1.val) IN
                      IF sec2.tag = "Err" THEN Err
                      ELSE Ok(Duration(sec2.val, nsec))

RECURSIVE first_char(_, _, _, _), number_loop(_, _, _, _), unit_loop(_, _, _, _, _)

\* Parser::parse_first_char and what follows it: skip whitespace up to the
\* first digit of the next number.  At the end of the input the parse is over:
\* an error (Empty) if nothing was read yet, the total otherwise.
first_char(s, i, cur, first) ==
    IF i > Len(s) THEN (IF first THEN Err ELSE Ok(cur))
    ELSE LET c == Char(s, i) IN
         IF IsDigit(c) THEN number_loop(s, i + 1, DigitVal(c), cur)
         ELSE IF IsWhitespace(c) THEN first_char(s, i + 1, cur, first)
         ELSE Err  \* NumberExpected

\* The digits of a number, up to the first letter of its unit.
number_loop(s, i, n, cur) ==
    IF i > Len(s) THEN Err  \* a number with no unit: UnknownUnit
    ELSE LET c == Char(s, i) IN
         IF IsDigit(c) THEN
             LET m == checked_mul(n, 10) IN
             IF m.tag = "Err" THEN Err  \* NumberOverflow
             ELSE LET a == checked_add(m.val, DigitVal(c)) IN
                  IF a.tag = "Err" THEN Err
                  ELSE number_loop(s, i + 1, a.val, cur)
         ELSE IF IsWhitespace(c) THEN number_loop(s, i + 1, n, cur)
         ELSE IF IsAlpha(c) THEN unit_loop(s, i + 1, n, i, cur)
         ELSE Err  \* InvalidCharacter

\* The letters of a unit, which a digit, whitespace or the end of input ends.
unit_loop(s, j, n, start, cur) ==
    IF j > Len(s) THEN parse_unit(n, SubSeq(s, start, Len(s)), cur)
    ELSE LET c == Char(s, j) IN
         IF IsAlpha(c) THEN unit_loop(s, j + 1, n, start, cur)
         ELSE IF IsDigit(c) \/ IsWhitespace(c) THEN
             LET u == parse_unit(n, SubSeq(s, start, j - 1), cur) IN
             IF u.tag = "Err" THEN Err
             ELSE IF IsDigit(c) THEN number_loop(s, j + 1, DigitVal(c), u.val)
             ELSE first_char(s, j + 1, u.val, FALSE)
         ELSE Err  \* InvalidCharacter

\* humantime::parse_duration: Ok(Duration) or Err.
parse_duration(s) == first_char(s, 1, Duration(0, 0), TRUE)

\* ------------------------------------------------------------ humantime::parse_rfc3339_weak

\* The latest year the weak grammar accepts: 9999 in the program (four
\* digits, MAX_RFC3339_SECONDS), scaled with the second counters.
MAX_RFC3339_YEAR == 2003

two_digits(s, i) ==
    IF IsDigit(Char(s, i)) /\ IsDigit(Char(s, i + 1))
    THEN Ok(DigitVal(Char(s, i)) * 10 + DigitVal(Char(s, i + 1)))
    ELSE Err  \* InvalidDigit

four_digits(s, i) ==
    LET hi == two_digits(s, i)
        lo == two_digits(s, i + 2)
    IN IF hi.tag = "Err" \/ lo.tag = "Err" THEN Err ELSE Ok(hi.val * 100 + lo.val)

is_leap_year(y) == y % 4 = 0 /\ (y % 100 # 0 \/ y % 400 = 0)

\* Days of the year before the month, and days in the month; <<0, 0>> for
\* a month that does not exist.
month_days(month, leap) ==
    CASE month = 1 -> <<0, 31>>
      [] month = 2 -> <<31, IF leap THEN 29 ELSE 28>>
      [] month = 3 -> <<59, 31>>
      [] month = 4 -> <<90, 30>>
      [] month = 5 -> <<120, 31>>
      [] month = 6 -> <<151, 30>>
      [] month = 7 -> <<181, 31>>
      [] month = 8 -> <<212, 31>>
      [] month = 9 -> <<243, 30>>
      [] month = 10 -> <<273, 31>>
      [] month = 11 -> <<304, 30>>
      [] month = 12 -> <<334, 31>>
      [] OTHER -> <<0, 0>>

RECURSIVE fraction(_, _, _, _)
\* The digits after the '.', most significant first, up to an optional last 'Z'.
fraction(s, idx, mult, nanos) ==
    IF idx > Len(s) THEN Ok(nanos)
    ELSE LET c == Char(s, idx) IN
         IF c = "Z" THEN (IF idx = Len(s) THEN Ok(nanos) ELSE Err)
         ELSE IF IsDigit(c)
              THEN fraction(s, idx + 1, mult \div 10, nanos + mult * DigitVal(c))
              ELSE Err  \* InvalidDigit

\* humantime::parse_rfc3339_weak: "YYYY-MM-DD" ("T" | " ") "hh:mm:ss"
\* [ "." digits ] [ "Z" ], read as UTC.  Ok(SystemTime) or Err.
parse_rfc3339_weak(s) ==
    IF Len(s) < 19 THEN Err  \* InvalidFormat
    ELSE IF \/ Char(s, 5) # "-" \/ Char(s, 8) # "-"
            \/ (Char(s, 11) # "T" /\ Char(s, 11) # " ")
            \/ Char(s, 14) # ":" \/ Char(s, 17) # ":" THEN Err
    ELSE LET year == four_digits(s, 1)
             month == two_digits(s, 6)
             day == two_digits(s, 9)
             hour == two_digits(s, 12)
             minute == two_digits(s, 15)
             second == two_digits(s, 18)
         IN
         IF \E f \in {year, month, day, hour, minute, second} : f.tag = "Err" THEN Err
         ELSE IF \/ year.val < 1970 \/ year.val > MAX_RFC3339_YEAR
                 \/ hour.val > 23 \/ minute.val > 59 \/ second.val > 60 THEN Err
         ELSE LET sec == IF second.val = 60 THEN 59 ELSE second.val
                  y1 == year.val - 1
                  leap_years == (y1 - 1968) \div 4 - (y1 - 1900) \div 100
                                + (y1 - 1600) \div 400
                  leap == is_leap_year(year.val)
                  md == month_days(month.val, leap)
              IN
              IF md[2] = 0 \/ day.val > md[2] \/ day.val = 0 THEN Err  \* OutOfRange
              ELSE LET ydays == md[1] + day.val - 1
                                + (IF leap /\ month.val > 2 THEN 1 ELSE 0)
                       days == (year.val - 1970) * 365 + leap_years + ydays
                       time == sec + minute.val * 60 + hour.val * 3600
                       nanos == IF Len(s) > 19 /\ Char(s, 20) = "."
                                THEN fraction(s, 21, 100000000, 0)
                                ELSE IF Len(s) # 19 /\ (Len(s) > 20 \/ Char(s, 20) # "Z")
                                     THEN Err ELSE Ok(0)
                   IN IF nanos.tag = "Err" THEN Err
                      ELSE Ok(SystemTime(time + days * 86400, nanos.val))

\* ------------------------------------------------------------ chrono::Local

\* The process's local timezone: `std` seconds east of UTC, and `dst`
\* seconds east of UTC for the UTC seconds dst_start <= u < dst_end.
TimeZone(std, dst, from, to) == [std |-> std, dst |-> dst, dst_start |-> from, dst_end |-> to]
offset_at(zone, u) == IF zone.dst_start <= u /\ u < zone.dst_end THEN zone.dst ELSE zone.std

\* Local.from_local_datetime: the UTC seconds whose local wall clock reads
\* naive: none in a spring-forward gap, two in a fall-back overlap.
from_local_datetime(zone, naive) ==
    {u \in {naive - zone.std, naive - zone.dst} : u + offset_at(zone, u) = naive}

\* A resolution that settles an overlap by its earlier instant.
single_earliest(us) ==
    IF us = {} THEN None
    ELSE Some(CHOOSE u \in us : \A v \in us : u <= v)

\* LocalResult::single
single(us) == IF Cardinality(us) = 1 THEN Some(CHOOSE u \in us : TRUE) ELSE None

\* ------------------------------------------------------------ src/filter/time.rs

\* A conversion that keeps the UTC reading of the date.
to_local_system_time_utc(zone, system_time) ==
    IF ~Le(UNIX_EPOCH, system_time) THEN None ELSE Some(system_time)

\* A conversion that does not reject a local instant before the epoch.
to_local_system_time_signed(zone, system_time) ==
    IF ~Le(UNIX_EPOCH, system_time) THEN None
    ELSE LET local_time == single(from_local_datetime(zone, system_time.secs)) IN
         IF local_time.tag = "None" THEN None
         ELSE Some(SystemTime(local_time.val, system_time.nanos))

\* The UTC-based instant of parse_rfc3339_weak, re-read as local time.
to_local_system_time(zone, system_time) ==
    \* duration_since(UNIX_EPOCH).ok()
    IF ~Le(UNIX_EPOCH, system_time) THEN None
    ELSE LET local_time == single(from_local_datetime(zone, system_time.secs)) IN
         IF local_time.tag = "None" THEN None
         \* signed_duration_since(local_epoch).to_std().ok()
         ELSE IF local_time.val < 0 THEN None
         ELSE Some(SystemTime(local_time.val, system_time.nanos))

\* SystemTime - Duration (impl Sub<Duration> for SystemTime): panics with
\* "overflow when subtracting duration from instant" when the result is
\* earlier than the earliest representable instant.
sub_duration(t, d) ==
    IF d.secs > t.secs - I64_MIN THEN Panic
    ELSE LET secs == t.secs - d.secs IN
         IF t.nanos >= d.nanos THEN Some(SystemTime(secs, t.nanos - d.nanos))
         ELSE IF secs = I64_MIN THEN Panic
         ELSE Some(SystemTime(secs - 1, t.nanos + NANOS_PER_SEC - d.nanos))

\* A date parse that appends the midnight to every string.
weak_date_padded(s) == parse_rfc3339_weak(s \o " 00:00:00")

\* parse_rfc3339_weak(s).or_else(|_| parse_rfc3339_weak(s + " 00:00:00"))
weak_date(s) ==
    LET as_is == parse_rfc3339_weak(s) IN
    IF as_is.tag = "Ok" THEN as_is ELSE parse_rfc3339_weak(s \o " 00:00:00")

\* A parse that reads a string of neither grammar as a zero duration.
from_str_or_ref(zone, ref, s) ==
    LET duration == parse_duration(s) IN
    IF duration.tag = "Ok" THEN sub_duration(ref, duration.val)
    ELSE LET date == weak_date(s) IN
         IF date.tag = "Err" THEN Some(ref)
         ELSE to_local_system_time(zone, date.val)

from_str(zone, ref, s) ==
    LET duration == parse_duration(s) IN
    IF duration.tag = "Ok" THEN sub_duration(ref, duration.val)
    ELSE LET date == weak_date(s) IN
         IF date.tag = "Err" THEN None
         ELSE to_local_system_time(zone, date.val)

Before(limit) == [kind |-> "Before", limit |-> limit]
After(limit) == [kind |-> "After", limit |-> limit]

before(zone, ref, s) ==
    LET r == from_str(zone, ref, s) IN
    IF r.tag = "Some" THEN Some(Before(r.val)) ELSE r

after(zone, ref, s) ==
    LET r == from_str(zone, ref, s) IN
    IF r.tag = "Some" THEN Some(After(r.val)) ELSE r

\* A comparison that leaves the limit itself out of Before.
applies_to_strict(self, t) ==
    IF self.kind = "Before" THEN ~Ge(t, self.limit) ELSE Ge(t, self.limit)

applies_to(self, t) ==
    IF self.kind = "Before" THEN Le(t, self.limit) ELSE Ge(t, self.limit)

\* ------------------------------------------------------------ inputs

\* The local timezones a process may be configured with: UTC, a zone east
\* of UTC (+05:30), a zone west of it (-05:00), and a zone with daylight
\* saving time (+01:00, and +02:00 from 2000-03-26T01:00:00Z to
\* 2000-10-29T01:00:00Z: local 02:00-03:00 does not exist on the first day
\* and exists twice on the second).
UtcZone == TimeZone(0, 0, 0, 0)
EastZone == TimeZone(19800, 19800, 0, 0)
WestZone == TimeZone(-18000, -18000, 0, 0)
DstZone == TimeZone(3600, 7200, 954032400, 972781200)
Zones == {UtcZone, EastZone, WestZone, DstZone}

\* Reference instants: 2000-10-10T10:10:10Z, with and without a
\* sub-second part, and an instant half a minute after the epoch.
RefTimes == {SystemTime(971172610, 0), SystemTime(971172610, 250000000), SystemTime(30, 0)}

\* User strings: durations (one of zero length, one with a sub-second part,
\* a composite one, the largest whole number of years the grammar accepts and
\* the first it rejects), dates with and without a time of day, dates at the
\* epoch and at the daylight saving transitions, and strings of neither grammar.
Inputs ==
    {"", "not-a-time", "10", "2000-10-10 10:10",
     "0s", "30sec", "1min", "2min", "1h 30m", "1500ms", "68y", "69y",
     "2000-10-10", "2000-10-10 10:10:00", "2000-10-10T10:10:10Z",
     "2000-10-10 10:10:00.5", "2000-10-10 10:10:60", "1969-12-31",
     "1970-01-01", "1970-01-01 06:00:00",
     "2000-03-26 02:30:00", "2000-10-29 02:30:00"}

\* Arguments of a direct call of to_local_system_time.
LocalArgs ==
    {SystemTime(-1, 0), SystemTime(0, 0), SystemTime(3600, 0),
     SystemTime(954037800, 0), SystemTime(971172610, 0)}

\* Candidate instants lie up to MaxShift seconds around a filter's limit.
MaxShift == 1
\* The caller builds its filters first (at most MaxCalls calls of before,
\* after and to_local_system_time) and then applies the last one.
MaxCalls == 2

\* ------------------------------------------------------------ state

VARIABLES
    zone,      \* the process's local timezone
    ref_time,  \* the reference instant the caller passes
    prev,      \* the call before the last one
    cur,       \* the last call: its function, input and outcome
    calls,     \* the number of calls made
    applied    \* the last applies_to on cur's filter: instant and verdict

vars == <<zone, ref_time, prev, cur, calls, applied>>

NoCall == [fn |-> "none"]
NoApp == [on |-> FALSE]

Init ==
    /\ zone \in Zones
    /\ ref_time \in RefTimes
    /\ prev = NoCall
    /\ cur = NoCall
    /\ calls = 0
    /\ applied = NoApp

\* A panic ends the process.
Panicked == cur.fn # "none" /\ cur.out.tag = "Panic"

IsFilterCall(c) == c.fn \in {"before", "after"}

Record(call) ==
    /\ calls < MaxCalls
    /\ applied = NoApp
    /\ prev' = cur
    /\ calls' = calls + 1
    /\ cur' = call
    /\ applied' = NoApp
    /\ UNCHANGED <<zone, ref_time>>

\* What the two constructors return for each timezone, reference instant and
\* string: they are pure functions, evaluated once.
before_of == [z \in Zones, r \in RefTimes, s \in Inputs |-> before(z, r, s)]
after_of == [z \in Zones, r \in RefTimes, s \in Inputs |-> after(z, r, s)]

CallBefore(s) ==
    /\ ~Panicked
    /\ Record([fn |-> "before", s |-> s, out |-> before_of[zone, ref_time, s]])

CallAfter(s) ==
    /\ ~Panicked
    /\ Record([fn |-> "after", s |-> s, out |-> after_of[zone, ref_time, s]])

CallToLocal(t) ==
    /\ ~Panicked
    /\ Record([fn |-> "to_local_system_time", arg |-> t,
               out |-> to_local_system_time(zone, t)])

\* The candidate instants offered to the filter f.
Candidates(f) ==
    {ref_time, SystemTime(ref_time.secs - 60, ref_time.nanos)}
    \cup {SystemTime(f.limit.secs + k, f.limit.nanos) : k \in -MaxShift..MaxShift}
    \cup {SystemTime(f.limit.secs, n) : n \in {0, NANOS_PER_SEC - 1}}

CallAppliesTo ==
    /\ IsFilterCall(cur)
    /\ cur.out.tag = "Some"
    /\ \E t \in Candidates(cur.out.val) :
          applied' = [on |-> TRUE, t |-> t, verdict |-> applies_to(cur.out.val, t)]
    /\ UNCHANGED <<zone, ref_time, prev, cur, calls>>

Next ==
    \/ \E s \in Inputs : CallBefore(s)
    \/ \E s \in Inputs : CallAfter(s)
    \/ \E t \in LocalArgs : CallToLocal(t)
    \/ CallAppliesTo

Spec == Init /\ [][Next]_vars

\* ------------------------------------------------------------ properties

\* The filter call cur took the duration branch / the date branch.
ViaDuration(c) == IsFilterCall(c) /\ parse_duration(c.s).tag = "Ok"
ViaDate(c) == IsFilterCall(c) /\ parse_duration(c.s).tag = "Err"

\* The instant an outcome carries, whichever variant wraps it.
LimitOf(out) == IF out.tag = "Some" THEN Some(out.val.limit) ELSE out

\* Days from 1970-01-01 to the civil date y-m-d (proleptic Gregorian).
DaysFromCivil(y, m, d) ==
    LET yy == IF m <= 2 THEN y - 1 ELSE y
        era == yy \div 400
        yoe == yy - era * 400
        doy == (153 * (IF m > 2 THEN m - 3 ELSE m + 9) + 2) \div 5 + d - 1
        doe == yoe * 365 + yoe \div 4 - yoe \div 100 + doy
    IN era * 146097 + doe - 719468

\* The text the date grammar reads for s: s itself when it holds a time of
\* day, s with midnight appended when it is a bare date.
DateText(s) == IF Len(s) >= 19 THEN s ELSE s \o " 00:00:00"

\* The calendar fields written in a date text, digit pairs read as numbers.
Written(s) ==
    LET x == DateText(s) IN
    [year |-> four_digits(x, 1).val, month |-> two_digits(x, 6).val,
     day |-> two_digits(x, 9).val, hour |-> two_digits(x, 12).val,
     minute |-> two_digits(x, 15).val, second |-> two_digits(x, 18).val]

\* The seconds from 1970-01-01 00:00:00 to the wall-clock reading w.
WallSeconds(w) ==
    DaysFromCivil(w.year, w.month, w.day) * 86400
    + w.hour * 3600 + w.minute * 60 + w.second

\* The local wall clock at the instant t reads the fields w: a clock's
\* seconds field runs from 0 to 59.
LocalClockReads(t, w) ==
    /\ w.second <= 59
    /\ t.secs + offset_at(zone, t.secs) = WallSeconds(w)

\* C1: Before(L).applies_to(t) is true exactly when t <= L and
\* After(L).applies_to(t) exactly when t >= L; at t = L both are true.
C1_AppliesToInclusive ==
    applied.on =>
        LET f == cur.out.val
            t == applied.t
            l == f.limit
            t_le_l == t.secs < l.secs \/ (t.secs = l.secs /\ t.nanos <= l.nanos)
            t_ge_l == t.secs > l.secs \/ (t.secs = l.secs /\ t.nanos >= l.nanos)
        IN /\ f.kind = "Before" => (applied.verdict <=> t_le_l)
           /\ f.kind = "After" => (applied.verdict <=> t_ge_l)
           /\ t = l => applied.verdict

C1_Witness ==
    /\ applied.on
    /\ cur.out.val.kind = "Before"
    /\ applied.t = cur.out.val.limit
    /\ applied.verdict

\* C2: for every string the duration grammar accepts with value d, before
\* and after succeed and carry the limit ref_time - d exactly (the instant l
\* with l + d = ref_time); the date grammar plays no part.
C2_DurationLimitExact ==
    ViaDuration(cur) =>
        /\ cur.out.tag = "Some"
        /\ LET d == parse_duration(cur.s).val
               l == cur.out.val.limit
           IN /\ (l.nanos + d.nanos) % NANOS_PER_SEC = ref_time.nanos
              /\ l.secs + d.secs + (l.nanos + d.nanos) \div NANOS_PER_SEC = ref_time.secs

\* C3: for every valid duration string of a strictly positive duration,
\* after(r, d).applies_to(r) is true and before(r, d).applies_to(r) is false.
C3_PositiveDurationAroundRef ==
    LET d == parse_duration(cur.s).val IN
    ViaDuration(cur) /\ (d.secs > 0 \/ d.nanos > 0) =>
        /\ cur.out.tag = "Some"
        /\ cur.fn = "after" => applies_to(cur.out.val, ref_time)
        /\ cur.fn = "before" => ~applies_to(cur.out.val, ref_time)

\* A string that is empty or matches neither grammar, with or without the
\* appended midnight.
Unparsable(s) ==
    \/ s = ""
    \/ /\ parse_duration(s).tag = "Err"
       /\ parse_rfc3339_weak(s).tag = "Err"
       /\ parse_rfc3339_weak(s \o " 00:00:00").tag = "Err"

\* C4: an empty string, or one matching neither the duration grammar nor
\* the weak date grammar as-is or with " 00:00:00" appended, makes before
\* and after return None; the two constructors agree on whether the result
\* is absent.
C4_UnparsableIsNone ==
    /\ IsFilterCall(cur) /\ Unparsable(cur.s) => cur.out = None
    /\ (IsFilterCall(prev) /\ IsFilterCall(cur) /\ prev.fn # cur.fn /\ prev.s = cur.s)
           => (prev.out.tag = "None" <=> cur.out.tag = "None")

C4_Witness ==
    /\ prev.fn = "before" /\ cur.fn = "after"
    /\ prev.s = "not-a-time" /\ cur.s = "not-a-time"
    /\ prev.out = None /\ cur.out = None

\* C5: before and after end in exactly one of two outcomes, a filter with a
\* resolved limit or an absent result, for every duration the grammar accepts:
\* computing ref_time - d produces no third outcome such as an abort.
C5_TwoOutcomesOnly ==
    IsFilterCall(cur) => cur.out.tag \in {"Some", "None"}

\* A bare date: "YYYY-MM-DD" and nothing else.
BareDate(s) ==
    /\ Len(s) = 10
    /\ Char(s, 5) = "-" /\ Char(s, 8) = "-"
    /\ \A i \in {1, 2, 3, 4, 6, 7, 9, 10} : IsDigit(Char(s, i))

\* C6: when the duration grammar fails, the date grammar is tried on the
\* string as-is and, only if that fails, on the string with " 00:00:00"
\* appended; the first success is the date that is resolved, so a bare date
\* YYYY-MM-DD resolves to 00:00:00 of that date on the local clock.
C6_DateFallbackOrder ==
    ViaDate(cur) =>
        LET as_is == parse_rfc3339_weak(cur.s)
            padded == parse_rfc3339_weak(cur.s \o " 00:00:00")
            w == Written(cur.s)
        IN /\ as_is.tag = "Ok" =>
                  LimitOf(cur.out) = to_local_system_time(zone, as_is.val)
           /\ as_is.tag = "Err" /\ padded.tag = "Ok" =>
                  LimitOf(cur.out) = to_local_system_time(zone, padded.val)
           /\ as_is.tag = "Err" /\ padded.tag = "Err" => cur.out = None
           /\ BareDate(cur.s) /\ cur.out.tag = "Some" =>
                  LET l == cur.out.val.limit IN
                  /\ l.nanos = 0
                  /\ l.secs + offset_at(zone, l.secs)
                         = DaysFromCivil(w.year, w.month, w.day) * 86400

C6_Witness ==
    /\ zone = DstZone
    /\ cur.fn = "after" /\ cur.s = "2000-10-10"
    /\ cur.out = Some(After(SystemTime(971128800, 0)))

\* The fields the date grammar resolves for s: a seconds field of 60 (a
\* leap second) is read as 59.
Resolved(s) ==
    LET w == Written(s) IN
    [w EXCEPT !.second = IF w.second = 60 THEN 59 ELSE w.second]

\* The limit of the date call c does not depend on the reference instant,
\* and the verdicts on c's filter are those of the order around its limit.
DateLimitStands(c) ==
    /\ \A r \in RefTimes : from_str(zone, r, c.s) = LimitOf(c.out)
    /\ applied.on =>
          LET t == applied.t
              l == c.out.val.limit
          IN applied.verdict <=>
                 IF c.fn = "before"
                 THEN t.secs < l.secs \/ (t.secs = l.secs /\ t.nanos <= l.nanos)
                 ELSE t.secs > l.secs \/ (t.secs = l.secs /\ t.nanos >= l.nanos)

\* C7 (as stated): the limit of a string resolved through the date branch
\* is the instant at which the local clock reads the fields written in the
\* string; it does not depend on ref_time, and the filter accepts t iff
\* t <= limit (before) or t >= limit (after).
C7_DateLimitReadsWrittenFields ==
    ViaDate(cur) /\ cur.out.tag = "Some" =>
        /\ LocalClockReads(cur.out.val.limit, Written(cur.s))
        /\ cur.out.val.limit.nanos = weak_date(cur.s).val.nanos
        /\ DateLimitStands(cur)

\* C7 (amended): as stated, except that a seconds field written as 60 is
\* read as 59.
C7_DateLimitReadsResolvedFields ==
    ViaDate(cur) /\ cur.out.tag = "Some" =>
        /\ LocalClockReads(cur.out.val.limit, Resolved(cur.s))
        /\ cur.out.val.limit.nanos = weak_date(cur.s).val.nanos
        /\ DateLimitStands(cur)

C7_Witness ==
    /\ zone = EastZone
    /\ ref_time = SystemTime(30, 0)
    /\ cur.fn = "before" /\ cur.s = "2000-10-10 10:10:00.5"
    /\ cur.out = Some(Before(SystemTime(971152800, 500000000)))
    /\ applied.on /\ applied.t = ref_time /\ applied.verdict

\* The naive timestamp a date call hands to the local timezone.
NaiveOf(c) == weak_date(c.s).val.secs

\* C8: when the naive timestamp of a date string maps to no local instant
\* (spring-forward gap) or to two (fall-back overlap), to_local_system_time
\* returns None and so do before and after.
C8_GapAndOverlapAreNone ==
    /\ (cur.fn = "to_local_system_time" /\ cur.arg.secs >= 0
        /\ Cardinality(from_local_datetime(zone, cur.arg.secs)) # 1)
           => cur.out = None
    /\ (ViaDate(cur) /\ weak_date(cur.s).tag = "Ok"
        /\ Cardinality(from_local_datetime(zone, NaiveOf(cur))) # 1)
           => cur.out = None

C8_Witness ==
    /\ zone = DstZone
    /\ prev.fn = "before" /\ prev.s = "2000-03-26 02:30:00" /\ prev.out = None
    /\ from_local_datetime(zone, NaiveOf(prev)) = {}
    /\ cur.fn = "after" /\ cur.s = "2000-10-29 02:30:00" /\ cur.out = None
    /\ Cardinality(from_local_datetime(zone, NaiveOf(cur))) = 2

\* The chronological order of two durations.
DurationLess(a, b) == a.secs < b.secs \/ (a.secs = b.secs /\ a.nanos < b.nanos)

\* C9: for valid duration strings with values d1 < d2, the limit of
\* after(r, d1) is >= the limit of after(r, d2), so every candidate that
\* after(r, d1) accepts is accepted by after(r, d2) (and every candidate
\* that before(r, d2) accepts by before(r, d1)).
C9_LargerDurationEarlierLimit ==
    (/\ ViaDuration(prev) /\ ViaDuration(cur) /\ prev.fn = cur.fn
     /\ DurationLess(parse_duration(prev.s).val, parse_duration(cur.s).val)) =>
        /\ cur.out.tag = "Some"
        /\ LET f1 == prev.out.val
               f2 == cur.out.val
               l1 == f1.limit
               l2 == f2.limit
           IN /\ l1.secs > l2.secs \/ (l1.secs = l2.secs /\ l1.nanos >= l2.nanos)
              /\ \A t \in Candidates(f1) \cup Candidates(f2) :
                    IF cur.fn = "after"
                    THEN applies_to(f1, t) => applies_to(f2, t)
                    ELSE applies_to(f2, t) => applies_to(f1, t)

\* C10: to_local_system_time never returns an instant before the Unix
\* epoch: it returns None for an input before the epoch, and None when the
\* one local instant of the naive timestamp lies before the epoch, so a
\* valid date string can make before and after return None.
C10_NeverBeforeEpoch ==
    /\ cur.fn = "to_local_system_time" =>
          /\ cur.out.tag \in {"Some", "None"}
          /\ cur.out.tag = "Some" => cur.out.val.secs >= 0
          /\ cur.arg.secs < 0 => cur.out = None
          /\ (cur.arg.secs >= 0
              /\ \E u \in from_local_datetime(zone, cur.arg.secs) : u < 0)
                 => cur.out = None
    /\ ViaDate(cur) =>
          /\ cur.out.tag = "Some" => cur.out.val.limit.secs >= 0
          /\ (weak_date(cur.s).tag = "Ok"
              /\ \E u \in from_local_datetime(zone, NaiveOf(cur)) : u < 0)
                 => cur.out = None

C10_Witness ==
    /\ zone = EastZone
    /\ cur.fn = "before" /\ cur.s = "1970-01-01"
    /\ weak_date(cur.s) = Ok(UNIX_EPOCH)
    /\ from_local_datetime(zone, NaiveOf(cur)) = {-19800}
    /\ cur.out = None

=============================================================================
